---- MODULE Spec2Model ----
(***************************************************************************)
(* Model of kokizzu/ant internal/httpcache: the directive parsers, the     *)
(* RFC7234 and Aggressive strategies, the Memstore storage, and the Cache  *)
(* construction and request lifecycle.                                     *)
(*                                                                         *)
(* Text.  A header value is modelled as the list of the pieces that lie    *)
(* between its commas (what strings.Split(str, ",") returns, the empty     *)
(* string being the empty list).  A piece is a record                      *)
(*    [pad, upper, name, eq, arg]                                          *)
(* standing for the text  pad name ["=" arg] pad  where pad is white space *)
(* when .pad holds and name is written in upper case when .upper holds.    *)
(* Durations are counted in seconds (time.Second is the unit).             *)
(***************************************************************************)
EXTENDS Integers, Sequences, FiniteSets, TLC

\* ------------------------------------------------------------------ bounds
\* Longest Cache-Control value, in comma-separated pieces.
MaxDirectives == 2
\* Largest instant written in a Date or Expires header, in seconds.
MaxTime == 2
\* Largest number written as a max-age payload.
MaxAge == 1

\* ------------------------------------------------------------------ text
Piece(pad, upper, name, eq, arg) ==
    [pad |-> pad, upper |-> upper, name |-> name, eq |-> eq, arg |-> arg]

\* The text of a bare lower-case token such as "no-store".
Lit(name) == Piece(FALSE, FALSE, name, FALSE, "")

\* strings.TrimSpace
TrimSpace(v) == [v EXCEPT !.pad = FALSE]

\* strings.ToLower
ToLower(v) == [v EXCEPT !.upper = FALSE]

\* v == "" for a trimmed piece
IsEmpty(v) == v.name = "" /\ ~v.eq /\ ~v.pad

\* Names of the vocabulary that begin with the letters max-age.
MaxAgePrefixed == {"max-age", "max-age-ext"}

\* strings.HasPrefix(d, "max-age")
HasPrefixMaxAge(d) == ~d.pad /\ ~d.upper /\ d.name \in MaxAgePrefixed

\* strings.IndexByte(d, '=') != -1
HasEq(d) == d.eq

\* The payload that overflows an int64.
Huge == "99999999999999999999"

\* strconv.ParseInt(s, 10, 64): the number and whether it failed.  A syntax
\* error gives 0; a range error gives the nearest int64, written sat = 1
\* (math.MaxInt64), the number itself being beyond 32-bit arithmetic.
ParseInt(s) ==
    IF \E n \in (0 - MaxAge - 1)..(MaxAge + 1) : ToString(n) = s
    THEN [n |-> CHOOSE n \in (0 - MaxAge - 1)..(MaxAge + 1) : ToString(n) = s,
          sat |-> 0, err |-> FALSE]
    ELSE IF s = Huge
         THEN [n |-> 0, sat |-> 1, err |-> TRUE]
         ELSE [n |-> 0, sat |-> 0, err |-> TRUE]

\* time.Duration(n) * time.Second, in seconds.  The product is taken in 64
\* bits: (2^63 - 1) * 10^9 = -10^9 modulo 2^64, that is, minus one second.
Seconds(r) == IF r.sat = 1 THEN 0 - 1 ELSE r.n

\* Split splits the given str by sep, trims and lowercases the pieces and
\* omits the empty ones.
RECURSIVE split(_)
split(str) ==
    IF str = <<>> THEN <<>>
    ELSE LET v == TrimSpace(Head(str))
         IN  IF ~IsEmpty(v)
             THEN <<ToLower(v)>> \o split(Tail(str))
             ELSE split(Tail(str))

\* ------------------------------------------------------------------ headers
HeaderKeys == {"Cache-Control", "Pragma", "Vary", "Date", "Expires",
               "Accept-Language", "Accept-Encoding"}

\* The text of a header that is absent or empty.
NoText == <<>>

\* http.Header.Get
Get(h, key) == IF key \in DOMAIN h THEN h[key] ELSE NoText

\* http.CanonicalHeaderKey on a lower-cased piece.
CanonicalHeaderKey(v) ==
    IF v.eq THEN v.name \o "=" \o v.arg
    ELSE CASE v.name = "accept-language" -> "Accept-Language"
           [] v.name = "accept-encoding" -> "Accept-Encoding"
           [] v.name = "cache-control"   -> "Cache-Control"
           [] OTHER                      -> v.name

\* A date text: <<>> when absent, else one of
\*   [k |-> "bad"]      text that is not in the RFC1123 layout,
\*   [k |-> "zero"]     the RFC1123 text of the zero time (year 1),
\*   [k |-> "rfc1123"]  the RFC1123 text of the instant t.
DateText(k, t) == <<[k |-> k, t |-> t]>>

\* time.Parse(time.RFC1123, v) followed by err == nil && !t.IsZero()
ParseTime(v) ==
    LET d == Head(v)
    IN  [t |-> IF d.k = "rfc1123" THEN d.t ELSE 0,
         ok |-> d.k = "rfc1123"]

NoTime == [t |-> 0, ok |-> FALSE]

\* ------------------------------------------------------------------ parsers
RECURSIVE nostoreLoop(_)
nostoreLoop(ds) ==
    IF ds = <<>> THEN FALSE
    ELSE IF Head(ds) = Lit("no-store") THEN TRUE ELSE nostoreLoop(Tail(ds))

\* Nostore returns true if no-store is set.
nostore(h) == nostoreLoop(split(Get(h, "Cache-Control")))

RECURSIVE nocacheLoop(_)
nocacheLoop(ds) ==
    IF ds = <<>> THEN FALSE
    ELSE IF Head(ds) = Lit("no-cache") THEN TRUE ELSE nocacheLoop(Tail(ds))

\* Nocache returns true if the no-cache is set.
nocache(h) ==
    IF nocacheLoop(split(Get(h, "Cache-Control"))) THEN TRUE
    ELSE nocacheLoop(split(Get(h, "Pragma")))

RECURSIVE maxageLoop(_)
maxageLoop(ds) ==
    IF ds = <<>> THEN [age |-> 0, ok |-> FALSE]
    ELSE LET d == Head(ds)
         IN  IF HasPrefixMaxAge(d) /\ HasEq(d)
             THEN [age |-> Seconds(ParseInt(d.arg)), ok |-> TRUE]
             ELSE maxageLoop(Tail(ds))

\* Maxage returns the cache-control max-age.
maxage(h) == maxageLoop(split(Get(h, "Cache-Control")))

\* Expires returns the expires timestamp.
expires(h) ==
    LET v == Get(h, "Expires")
    IN  IF v # NoText THEN ParseTime(v) ELSE NoTime

\* Date returns the date timestamp.
date(h) ==
    LET v == Get(h, "Date")
    IN  IF v # NoText THEN ParseTime(v) ELSE NoTime

\* lifetime that takes Expires without asking for a Date.
lifetime_ExpiresAlone(resp) ==
    LET m == maxage(resp.Header)
        e == expires(resp.Header)
        d == date(resp.Header)
    IN  IF m.ok THEN [age |-> m.age, ok |-> TRUE]
        ELSE IF e.ok THEN [age |-> e.t - d.t, ok |-> TRUE]
        ELSE [age |-> 0 - 1, ok |-> FALSE]

\* Lifetime returns the lifetime duration of the response.
lifetime(resp) ==
    LET m == maxage(resp.Header)
        e == expires(resp.Header)
        d == date(resp.Header)
    IN  IF m.ok THEN [age |-> m.age, ok |-> TRUE]
        ELSE IF e.ok /\ d.ok THEN [age |-> e.t - d.t, ok |-> TRUE]
        ELSE [age |-> 0 - 1, ok |-> FALSE]

\* ------------------------------------------------------------------ messages
Request(method, url, header) ==
    [Method |-> method, URL |-> url, Header |-> header]

Response(code, header, req) ==
    [StatusCode |-> code, Header |-> header, Request |-> req]

\* Matches ensures that the given request and response match.
RECURSIVE matchesLoop(_, _, _)
matchesLoop(hs, req, resp) ==
    IF hs = <<>> THEN TRUE
    ELSE LET key == CanonicalHeaderKey(Head(hs))
         IN  IF key # "" /\ Get(req.Header, key) # Get(resp.Header, key)
             THEN FALSE
             ELSE matchesLoop(Tail(hs), req, resp)

matches(req, resp) == matchesLoop(split(Get(req.Header, "Vary")), req, resp)

\* The directive set of a header: the lower-cased tokens of its Cache-Control
\* and Pragma values.
RECURSIVE Range(_)
Range(s) == IF s = <<>> THEN {} ELSE {Head(s)} \cup Range(Tail(s))

directivesFrom(h) ==
    Range(split(Get(h, "Cache-Control"))) \cup Range(split(Get(h, "Pragma")))

has(d, name) == Lit(name) \in d

\* ------------------------------------------------------------------ RFC7234
\* The response status codes the strategies take to be cacheable.
CacheableStatus(code) ==
    CASE code \in {200, 203, 204, 206} -> TRUE
      [] code \in {300, 301}           -> TRUE
      [] code \in {404, 405, 410, 414} -> TRUE
      [] code = 501                    -> TRUE
      [] OTHER                         -> FALSE

\* RFC7234.cache that forgets HEAD.
RFC7234_cache_GetOnly(req) == req.Method = "GET" /\ ~nostore(req.Header)

RFC7234_cache(req) ==
    (req.Method = "GET" \/ req.Method = "HEAD") /\ ~nostore(req.Header)

\* RFC7234.store that looks for no-store in the request alone.
RFC7234_store_RequestOnly(resp) ==
    LET req == resp.Request
        l   == lifetime(resp)
    IN  IF ~(req.Method \in {"GET", "HEAD"}) THEN FALSE
        ELSE IF ~CacheableStatus(resp.StatusCode) THEN FALSE
        ELSE IF nostore(req.Header) THEN FALSE
        ELSE l.ok /\ l.age > 0

RFC7234_store(resp) ==
    LET req == resp.Request
        l   == lifetime(resp)
    IN  IF ~(req.Method \in {"GET", "HEAD"}) THEN FALSE
        ELSE IF ~CacheableStatus(resp.StatusCode) THEN FALSE
        ELSE IF nostore(req.Header) \/ nostore(resp.Header) THEN FALSE
        ELSE l.ok /\ l.age > 0

RFC7234_fresh(resp) ==
    LET req  == resp.Request
        reqd == directivesFrom(req.Header)
        resd == directivesFrom(resp.Header)
        l    == lifetime(resp)
    IN  IF ~matches(req, resp) THEN "Transparent"
        ELSE IF has(reqd, "no-cache") \/ has(resd, "no-cache") THEN "Stale"
        ELSE IF l.ok /\ l.age > 0 THEN "Fresh"
        ELSE "Stale"

\* ------------------------------------------------------------------ Aggressive
\* 24 * time.Hour, in seconds.
Day == 86400

\* Aggressive.lifetime that keeps a Lifetime of zero.
Aggressive_lifetime_ZeroKept(a) == IF a.Lifetime >= 0 THEN a.Lifetime ELSE Day

\* Lifetime returns the lifetime.
Aggressive_lifetime(a) == IF a.Lifetime > 0 THEN a.Lifetime ELSE Day

Aggressive_cache(a, req) == req.Method = "GET" \/ req.Method = "HEAD"

\* Aggressive.store that honours no-store as RFC7234.store does.
Aggressive_store_NoStore(a, resp) ==
    LET req == resp.Request
    IN  IF ~(req.Method \in {"GET", "HEAD"}) THEN FALSE
        ELSE IF ~CacheableStatus(resp.StatusCode) THEN FALSE
        ELSE ~(nostore(req.Header) \/ nostore(resp.Header))

Aggressive_store(a, resp) ==
    LET req == resp.Request
    IN  IF ~(req.Method \in {"GET", "HEAD"}) THEN FALSE
        ELSE IF ~CacheableStatus(resp.StatusCode) THEN FALSE
        ELSE TRUE

\* time.Since(date) at the instant now.
Since(t, now) == now - t

Aggressive_fresh(a, resp, now) ==
    LET d == date(resp.Header)
    IN  IF d.ok /\ Since(d.t, now) < Aggressive_lifetime(a)
        THEN "Fresh"
        ELSE "Transparent"

\* ------------------------------------------------------------------ inputs
\* The texts of at most n pieces drawn from S.
TextsUpTo(S, n) == UNION {[1..k -> S] : k \in 0..n}

\* What may follow "max-age=".
Payloads == {ToString(n) : n \in (0 - 1)..MaxAge} \cup {"x", "", Huge}

\* The pieces of a response's Cache-Control.
CCPieces ==
    {Lit("no-store"), Lit("no-cache"), Lit("max-age"),
     Piece(TRUE, TRUE, "no-store", FALSE, ""),
     Piece(TRUE, FALSE, "", FALSE, ""),
     Piece(FALSE, FALSE, "no-store", TRUE, "x"),
     Piece(FALSE, FALSE, "max-age-ext", TRUE, "1"),
     Piece(TRUE, TRUE, "max-age", TRUE, "1")}
    \cup {Piece(FALSE, FALSE, "max-age", TRUE, p) : p \in Payloads}

\* The Cache-Control values of a request.
ReqCC ==
    {NoText, <<Lit("no-store")>>, <<Lit("no-cache")>>,
     <<Piece(TRUE, TRUE, "no-store", FALSE, "")>>,
     <<Lit("no-cache"), Lit("no-store")>>,
     <<Piece(FALSE, FALSE, "max-age", TRUE, "1")>>}

\* The Pragma values.
Pragmas == {NoText, <<Lit("no-cache")>>, <<Piece(TRUE, TRUE, "no-cache", FALSE, "")>>}

DateTexts ==
    {NoText, DateText("bad", 0), DateText("zero", 0)}
    \cup {DateText("rfc1123", t) : t \in 0..MaxTime}

\* The Vary values.
Varies ==
    {NoText, <<Lit("accept-language")>>, <<Lit("accept-encoding")>>,
     <<Piece(TRUE, TRUE, "accept-language", FALSE, "")>>,
     <<Lit("accept-language"), Lit("accept-encoding")>>,
     <<Piece(TRUE, FALSE, "", FALSE, "")>>}

Languages == {NoText, <<Lit("en-us")>>, <<Lit("fr")>>}
Encodings == {NoText, <<Lit("gzip")>>}

\* The empty method is what a zero http.Request carries.
Methods == {"GET", "HEAD", "POST", ""}

StatusCodes ==
    {200, 203, 204, 206, 300, 301, 404, 405, 410, 414, 501}
    \cup {100, 201, 302, 304, 500}

Header(cc, pragma, vary, dt, exp, al, ae) ==
    [k \in HeaderKeys |->
        CASE k = "Cache-Control"   -> cc
          [] k = "Pragma"          -> pragma
          [] k = "Vary"            -> vary
          [] k = "Date"            -> dt
          [] k = "Expires"         -> exp
          [] k = "Accept-Language" -> al
          [] k = "Accept-Encoding" -> ae]

NoHeader == Header(NoText, NoText, NoText, NoText, NoText, NoText, NoText)

NoRequest == Request("GET", "u1", NoHeader)

\* ------------------------------------------------------------------ NewCache
\* Longest option list given to NewCache.
MaxOpts == 3

\* The nil interface value.
Nil == [kind |-> "nil"]

NoErr == "nil"

RFC7234 == [kind |-> "RFC7234"]
Aggressive(l) == [kind |-> "Aggressive", Lifetime |-> l]
MemstoreRef(id) == [kind |-> "Memstore", id |-> id]
ClientRef(id) == [kind |-> "Client", id |-> id]

\* http.DefaultClient
DefaultClient == ClientRef(0)

\* WithStrategy sets the strategy to s.
WithStrategy(s, cch) ==
    IF s = Nil
    THEN [cache |-> cch, err |-> "httpcache: strategy must be non-nil"]
    ELSE [cache |-> [cch EXCEPT !.strategy = s], err |-> NoErr]

\* WithStorage sets the storage to s.
WithStorage(s, cch) ==
    IF s = Nil
    THEN [cache |-> cch, err |-> "httpcache: storage must be non-nil"]
    ELSE [cache |-> [cch EXCEPT !.storage = s], err |-> NoErr]

\* WithClient that falls back on http.DefaultClient when given nil.
WithClient_NilDefaults(client, cch) ==
    IF client = Nil
    THEN [cache |-> [cch EXCEPT !.client = DefaultClient], err |-> NoErr]
    ELSE [cache |-> [cch EXCEPT !.client = client], err |-> NoErr]

\* WithClient sets the HTTP client.
WithClient(client, cch) ==
    IF client = Nil
    THEN [cache |-> cch, err |-> "httpcache: client must be non-nil"]
    ELSE [cache |-> [cch EXCEPT !.client = client], err |-> NoErr]

\* An Option is the closure one of the three constructors returns: the
\* constructor's name and the argument it captured.
Option(with, arg) == [with |-> with, arg |-> arg]

\* opt(cache)
Apply(opt, cch) ==
    CASE opt.with = "WithStrategy" -> WithStrategy(opt.arg, cch)
      [] opt.with = "WithStorage"  -> WithStorage(opt.arg, cch)
      [] opt.with = "WithClient"   -> WithClient(opt.arg, cch)

RECURSIVE NewCacheLoop(_, _)
NewCacheLoop(opts, cch) ==
    IF opts = <<>> THEN [cache |-> cch, err |-> NoErr]
    ELSE LET r == Apply(Head(opts), cch)
         IN  IF r.err # NoErr
             THEN [cache |-> Nil, err |-> r.err]
             ELSE NewCacheLoop(Tail(opts), r.cache)

\* NewCache returns a new cache with the given options.
NewCache(opts) ==
    NewCacheLoop(opts, [kind     |-> "Cache",
                        strategy |-> RFC7234,
                        storage  |-> MemstoreRef(0),
                        client   |-> DefaultClient])

Strategies == {RFC7234, Aggressive(0), Aggressive(1)}

Options ==
    {Option("WithStrategy", s) : s \in Strategies \cup {Nil}}
    \cup {Option("WithStorage", s) : s \in {MemstoreRef(1), MemstoreRef(2), Nil}}
    \cup {Option("WithClient", s) : s \in {ClientRef(1), ClientRef(2), Nil}}

\* ------------------------------------------------------------------ Memstore
\* A []byte: the nil slice, or the bytes b.
NilBytes == [nil |-> TRUE, b |-> <<>>]
Bytes(b) == [nil |-> FALSE, b |-> b]

\* Memstore.Store that drops every other key.
Memstore_Store_Alone(m, key, value) ==
    [c   |-> [k \in {key} |-> value],
     err |-> NoErr]

\* Memstore.Store: m.c.Store(key, value); return nil.  The map is a function
\* whose domain is the set of keys present.
Memstore_Store(m, key, value) ==
    [c   |-> [k \in DOMAIN m \cup {key} |-> IF k = key THEN value ELSE m[k]],
     err |-> NoErr]

\* Memstore.Load
Memstore_Load(m, key) ==
    IF key \in DOMAIN m
    THEN [val |-> m[key], err |-> NoErr]
    ELSE [val |-> NilBytes, err |-> NoErr]

\* The empty sync.Map.
EmptyMap == [k \in {} |-> NilBytes]

\* ------------------------------------------------------------------ Strategy
\* The Strategy interface: dispatch on the dynamic type.
Strategy_cache(s, req) ==
    IF s.kind = "RFC7234" THEN RFC7234_cache(req) ELSE Aggressive_cache(s, req)

Strategy_store(s, resp) ==
    IF s.kind = "RFC7234" THEN RFC7234_store(resp) ELSE Aggressive_store(s, resp)

Strategy_fresh(s, resp, t) ==
    IF s.kind = "RFC7234" THEN RFC7234_fresh(resp) ELSE Aggressive_fresh(s, resp, t)

\* ------------------------------------------------------------------ state
VARIABLES
    call,      \* the last call of a function of the package: fn, arg, ret
    c,         \* Memstore.c
    routine,   \* the goroutines that call the Memstore
    events,    \* per key, the value of the last Store call that took effect
    cache,     \* the Cache NewCache returned
    now,       \* the wall clock, in seconds
    caller     \* the goroutines that call Cache.Do

vars == <<call, c, routine, events, cache, now, caller>>

NoCall == [fn |-> "none", arg |-> <<>>, ret |-> <<>>]

\* ------------------------------------------------------------------ calls
\* Largest Lifetime an Aggressive strategy is configured with, in seconds.
MaxLifetime == 2

Lifetimes == (0 - 1)..MaxLifetime

\* The instants the clock is read at.
Nows == {t + e : t \in 0..MaxTime, e \in {0, 1, MaxLifetime, Day - 1, Day, Day + 1}}

\* Date and Expires of the responses given to store and fresh.
DatePairs ==
    {<<NoText, NoText>>,
     <<DateText("rfc1123", 0), DateText("rfc1123", 1)>>,
     <<DateText("rfc1123", 1), DateText("rfc1123", 0)>>,
     <<DateText("rfc1123", 1), NoText>>}

FreshCC ==
    {NoText, <<Lit("no-cache")>>,
     <<Piece(FALSE, FALSE, "max-age", TRUE, "1")>>,
     <<Piece(FALSE, FALSE, "max-age", TRUE, "0")>>,
     <<Piece(FALSE, FALSE, "max-age", TRUE, "x")>>,
     <<Piece(FALSE, FALSE, "max-age", TRUE, Huge)>>,
     <<Piece(FALSE, FALSE, "max-age", TRUE, "1"), Lit("no-cache")>>}

CallsIdle ==
    /\ c = EmptyMap /\ routine = <<>> /\ events = <<>>
    /\ cache = Nil /\ now = 0 /\ caller = <<>>

CallsRest == <<c, routine, events, cache, now, caller>>

CallMaxage ==
    /\ call = NoCall
    /\ \E cc \in TextsUpTo(CCPieces, MaxDirectives) :
        LET h == Header(cc, NoText, NoText, NoText, NoText, NoText, NoText)
        IN  /\ call' = [fn |-> "maxage", arg |-> h, ret |-> maxage(h)]
            /\ UNCHANGED CallsRest

CallLifetime ==
    /\ call = NoCall
    /\ \E cc \in TextsUpTo(CCPieces, MaxDirectives), d \in DateTexts, e \in DateTexts :
        LET resp == Response(200, Header(cc, NoText, NoText, d, e, NoText, NoText),
                             NoRequest)
        IN  /\ call' = [fn |-> "lifetime", arg |-> resp, ret |-> lifetime(resp)]
            /\ UNCHANGED CallsRest

CallCache ==
    /\ call = NoCall
    /\ \E s \in Strategies, m \in Methods, cc \in ReqCC, p \in Pragmas :
        LET req == Request(m, "u1", Header(cc, p, NoText, NoText, NoText, NoText, NoText))
        IN  /\ call' = [fn  |-> "cache",
                        arg |-> [strategy |-> s, req |-> req],
                        ret |-> Strategy_cache(s, req)]
            /\ UNCHANGED CallsRest

CallStore ==
    /\ call = NoCall
    /\ \E s \in Strategies, m \in Methods, code \in StatusCodes, rcc \in ReqCC,
       cc \in TextsUpTo(CCPieces, 1), dp \in DatePairs :
        LET req  == Request(m, "u1",
                            Header(rcc, NoText, NoText, NoText, NoText, NoText, NoText))
            resp == Response(code,
                             Header(cc, NoText, NoText, dp[1], dp[2], NoText, NoText),
                             req)
        IN  /\ call' = [fn  |-> "store",
                        arg |-> [strategy |-> s, resp |-> resp],
                        ret |-> Strategy_store(s, resp)]
            /\ UNCHANGED CallsRest

\* The request and the stored response of a freshness question.
FreshInputs ==
    {Response(200, Header(cc, rp, rv, dp[1], dp[2], ral, NoText),
              Request("GET", "u1", Header(qcc, qp, qv, NoText, NoText, qal, qae))) :
        cc \in FreshCC, rp \in {NoText, <<Lit("no-cache")>>},
        rv \in {NoText, <<Lit("accept-language")>>},
        dp \in DatePairs \ {<<DateText("rfc1123", 1), NoText>>},
        ral \in Languages,
        qcc \in {NoText, <<Lit("no-cache")>>, <<Lit("no-store")>>},
        qp \in {NoText, <<Piece(TRUE, TRUE, "no-cache", FALSE, "")>>},
        qv \in Varies, qal \in Languages, qae \in Encodings}

CallRFCFresh ==
    /\ call = NoCall
    /\ \E resp \in FreshInputs :
        /\ call' = [fn  |-> "fresh",
                    arg |-> [strategy |-> RFC7234, resp |-> resp, now |-> 0],
                    ret |-> Strategy_fresh(RFC7234, resp, 0)]
        /\ UNCHANGED CallsRest

CallMatches ==
    /\ call = NoCall
    /\ \E qv \in Varies, rv \in Varies, qal \in Languages, ral \in Languages,
       qae \in Encodings, rae \in Encodings :
        LET req  == Request("GET", "u1",
                            Header(NoText, NoText, qv, NoText, NoText, qal, qae))
            resp == Response(200, Header(NoText, NoText, rv, NoText, NoText, ral, rae),
                             req)
        IN  /\ call' = [fn |-> "matches", arg |-> resp, ret |-> matches(req, resp)]
            /\ UNCHANGED CallsRest

CallAggressiveFresh ==
    /\ call = NoCall
    /\ \E l \in Lifetimes, d \in DateTexts, t \in Nows,
       cc \in {NoText, <<Lit("no-cache")>>} :
        LET resp == Response(200, Header(cc, NoText, NoText, d, NoText, NoText, NoText),
                             NoRequest)
        IN  /\ call' = [fn  |-> "fresh",
                        arg |-> [strategy |-> Aggressive(l), resp |-> resp, now |-> t],
                        ret |-> Strategy_fresh(Aggressive(l), resp, t)]
            /\ UNCHANGED CallsRest

CallNewCache ==
    /\ call = NoCall
    /\ \E opts \in TextsUpTo(Options, MaxOpts) :
        /\ call' = [fn |-> "NewCache", arg |-> opts, ret |-> NewCache(opts)]
        /\ UNCHANGED CallsRest

InitCalls == call = NoCall /\ CallsIdle

NextCalls ==
    \/ CallMaxage
    \/ CallLifetime
    \/ CallCache
    \/ CallStore
    \/ CallRFCFresh
    \/ CallMatches
    \/ CallAggressiveFresh
    \/ CallNewCache

\* The functions of the package, each called on every input of its set.
SpecCalls == InitCalls /\ [][NextCalls]_vars

\* ------------------------------------------------------------------ Memstore calls
\* Largest key stored under.
MaxKey == 2

Keys == 1..MaxKey

Values == {NilBytes, Bytes(<<>>), Bytes(<<1>>), Bytes(<<1, 2>>)}

\* The goroutines that share the Memstore.
Routines == {"g1", "g2"}

Resting == [pc |-> "idle", op |-> "none", key |-> 0, value |-> NilBytes,
            ret |-> NilBytes, err |-> NoErr, expect |-> NilBytes]

\* events[k] is <<>> until a Store on key k takes effect, and then <<v>> for
\* the value v of the last one that did.
LastStored(k) == IF events[k] = <<>> THEN NilBytes ELSE events[k][Len(events[k])]

MemRest == <<call, cache, now, caller>>

\* A goroutine calls Store(ctx, key, value).
CallMemStore(g) ==
    /\ routine[g].pc = "idle"
    /\ \E k \in Keys, v \in Values :
          routine' = [routine EXCEPT ![g] =
                         [Resting EXCEPT !.pc = "called", !.op = "Store",
                                         !.key = k, !.value = v]]
    /\ UNCHANGED <<c, events>>
    /\ UNCHANGED MemRest

\* A goroutine calls Load(ctx, key).
CallMemLoad(g) ==
    /\ routine[g].pc = "idle"
    /\ \E k \in Keys :
          routine' = [routine EXCEPT ![g] =
                         [Resting EXCEPT !.pc = "called", !.op = "Load", !.key = k]]
    /\ UNCHANGED <<c, events>>
    /\ UNCHANGED MemRest

\* The body of Store runs: sync.Map.Store is atomic.
Store(g) ==
    /\ routine[g].pc = "called"
    /\ routine[g].op = "Store"
    /\ LET r == Memstore_Store(c, routine[g].key, routine[g].value)
       IN  /\ c' = r.c
           /\ routine' = [routine EXCEPT ![g].pc = "returned", ![g].err = r.err]
    /\ events' = [events EXCEPT ![routine[g].key] = <<routine[g].value>>]
    /\ UNCHANGED MemRest

\* The body of Load runs: sync.Map.Load is atomic.
Load(g) ==
    /\ routine[g].pc = "called"
    /\ routine[g].op = "Load"
    /\ LET r == Memstore_Load(c, routine[g].key)
       IN  routine' = [routine EXCEPT ![g].pc = "returned", ![g].ret = r.val,
                                      ![g].err = r.err,
                                      ![g].expect = LastStored(routine[g].key)]
    /\ UNCHANGED <<c, events>>
    /\ UNCHANGED MemRest

\* The caller has its result and goes on.
Return(g) ==
    /\ routine[g].pc = "returned"
    /\ routine' = [routine EXCEPT ![g] = Resting]
    /\ UNCHANGED <<c, events>>
    /\ UNCHANGED MemRest

InitMemstore ==
    /\ c = EmptyMap
    /\ routine = [g \in Routines |-> Resting]
    /\ events = [k \in Keys |-> <<>>]
    /\ call = NoCall /\ cache = Nil /\ now = 0 /\ caller = <<>>

NextMemstore ==
    \E g \in Routines :
        \/ CallMemStore(g)
        \/ CallMemLoad(g)
        \/ Store(g)
        \/ Load(g)
        \/ Return(g)

\* One Memstore shared by goroutines that call Store and Load at will.
SpecMemstore == InitMemstore /\ [][NextMemstore]_vars

\* ------------------------------------------------------------------ Cache.Do
\* Latest reading of the clock.
MaxClock == 2

\* The goroutines that share the Cache.
Callers == {"a", "b"}

\* The cache key of a request: its method and URL.
KeyOf(req) == <<req.Method, req.URL>>

\* The entry written for a response: status and headers, without the
\* request it answered.
Serialize(resp) == Bytes(<<[StatusCode |-> resp.StatusCode, Header |-> resp.Header]>>)

\* The response read back from an entry, for the request at hand.
Deserialize(entry, req) == Response(entry.b[1].StatusCode, entry.b[1].Header, req)

\* Step 4 of Do serves the candidate without the Client, on a verdict that
\* also lets stale candidates through.
FromCache_UnlessTransparent(verdict) == verdict # "Transparent"

\* Step 4 of Do: the candidate is served without the Client.
FromCache(verdict) == verdict = "Fresh"

NoResponse == <<>>

Waiting == [pc |-> "idle", req |-> NoRequest, cacheable |-> FALSE,
            cand |-> NoResponse, verdict |-> "none", at |-> 0,
            source |-> "none", resp |-> NoResponse, err |-> NoErr,
            forwarded |-> FALSE]

DoRequests ==
    {Request(m, "u1", Header(cc, NoText, NoText, NoText, NoText, NoText, NoText)) :
        m \in {"GET", "POST"}, cc \in {NoText, <<Lit("no-cache")>>}}

\* What the Client may answer at the instant t.
ClientResponses(req, t) ==
    {Response(code, Header(cc, NoText, NoText, DateText("rfc1123", t), NoText,
                           NoText, NoText), req) :
        code \in {200, 500},
        cc \in {NoText, <<Piece(FALSE, FALSE, "max-age", TRUE, "1")>>}}

DoRest == <<call, routine, events, cache>>

\* Steps 1 to 4 of Do: the cache gate, the key, the load and the verdict.
DoLookup(g) ==
    /\ caller[g].pc = "idle"
    /\ \E req \in DoRequests :
          LET gate  == Strategy_cache(cache.strategy, req)
              entry == Memstore_Load(c, KeyOf(req)).val
              found == gate /\ entry # NilBytes
              cand  == IF found THEN Deserialize(entry, req) ELSE NoRequest
              v     == IF found THEN Strategy_fresh(cache.strategy, cand, now)
                       ELSE "none"
              base  == [Waiting EXCEPT !.req = req, !.cacheable = gate,
                                       !.cand = IF found THEN <<cand>> ELSE NoResponse,
                                       !.verdict = v, !.at = now]
          IN  caller' = [caller EXCEPT ![g] =
                  IF found /\ FromCache(v)
                  THEN [base EXCEPT !.pc = "done", !.source = "cache",
                                    !.resp = <<cand>>]
                  ELSE [base EXCEPT !.pc = "forward"]]
    /\ UNCHANGED <<c, now>>
    /\ UNCHANGED DoRest

\* Step 5 of Do: the Client answers and the response is stored if the
\* strategy allows.
DoClient(g) ==
    /\ caller[g].pc = "forward"
    /\ \E resp \in ClientResponses(caller[g].req, now) :
          /\ caller' = [caller EXCEPT ![g].pc = "done", ![g].source = "client",
                                      ![g].resp = <<resp>>, ![g].forwarded = TRUE]
          /\ c' = IF caller[g].cacheable /\ Strategy_store(cache.strategy, resp)
                  THEN Memstore_Store(c, KeyOf(caller[g].req), Serialize(resp)).c
                  ELSE c
    /\ UNCHANGED now
    /\ UNCHANGED DoRest

\* The Client fails: its error goes to the caller and nothing is stored.
DoClientError(g) ==
    /\ caller[g].pc = "forward"
    /\ caller' = [caller EXCEPT ![g].pc = "done", ![g].source = "client",
                                ![g].err = "transport", ![g].forwarded = TRUE]
    /\ UNCHANGED <<c, now>>
    /\ UNCHANGED DoRest

\* Do returns.
DoReturn(g) ==
    /\ caller[g].pc = "done"
    /\ caller' = [caller EXCEPT ![g] = Waiting]
    /\ UNCHANGED <<c, now>>
    /\ UNCHANGED DoRest

\* A second passes.
Tick ==
    /\ now < MaxClock
    /\ now' = now + 1
    /\ UNCHANGED <<c, caller>>
    /\ UNCHANGED DoRest

Init ==
    /\ \E opts \in {<<>>, <<Option("WithStrategy", Aggressive(1))>>,
                    <<Option("WithStrategy", Aggressive(1)),
                      Option("WithStrategy", RFC7234)>>} :
          cache = NewCache(opts).cache
    /\ c = EmptyMap
    /\ now = 0
    /\ caller = [g \in Callers |-> Waiting]
    /\ call = NoCall /\ routine = <<>> /\ events = <<>>

Next ==
    \/ \E g \in Callers :
          \/ DoLookup(g)
          \/ DoClient(g)
          \/ DoClientError(g)
          \/ DoReturn(g)
    \/ Tick

\* A Cache built by NewCache, shared by goroutines that call Do.
Spec == Init /\ [][Next]_vars

\* ------------------------------------------------------------------ claims
\* The text carries the token: one of its comma-separated pieces is the
\* token, in any case and with any white space around it.
Carries(text, token) ==
    \E i \in DOMAIN text : text[i].name = token /\ ~text[i].eq

AllowList == {200, 203, 204, 206, 300, 301, 404, 405, 410, 414, 501}

IsCall(fn, kind) ==
    /\ call.fn = fn
    /\ call.arg.strategy.kind = kind

\* C2: RFC7234.store(resp) is true exactly when the method is GET or HEAD,
\* the status code is on the allow-list, neither the request's nor the
\* response's Cache-Control carries no-store, and lifetime(resp) is ok and
\* positive; so it is false for a response with no Cache-Control, Expires
\* or Date.
C2_StoreIff ==
    IsCall("store", "RFC7234") =>
        LET resp == call.arg.resp
            req  == resp.Request
            l    == lifetime(resp)
        IN  /\ call.ret =
                  (/\ req.Method \in {"GET", "HEAD"}
                   /\ resp.StatusCode \in AllowList
                   /\ ~Carries(req.Header["Cache-Control"], "no-store")
                   /\ ~Carries(resp.Header["Cache-Control"], "no-store")
                   /\ l.ok
                   /\ l.age > 0)
            /\ (resp.StatusCode \notin AllowList => call.ret = FALSE)
            /\ (/\ resp.Header["Cache-Control"] = NoText
                /\ resp.Header["Expires"] = NoText
                /\ resp.Header["Date"] = NoText) => call.ret = FALSE

\* A HEAD request's 404 response is stored on the strength of Expires - Date.
C2_Witness ==
    /\ IsCall("store", "RFC7234")
    /\ call.ret = TRUE
    /\ call.arg.resp.Request.Method = "HEAD"
    /\ call.arg.resp.StatusCode = 404
    /\ call.arg.resp.Header["Cache-Control"] = NoText

\* C4: cache(request) is false for every method other than GET and HEAD
\* under both strategies; RFC7234.cache is true exactly for a GET or HEAD
\* whose Cache-Control does not carry no-store, Aggressive.cache exactly for
\* a GET or HEAD whatever the request carries.
C4_CacheIff ==
    call.fn = "cache" =>
        LET req == call.arg.req
            get == req.Method \in {"GET", "HEAD"}
        IN  /\ ~get => call.ret = FALSE
            /\ call.arg.strategy.kind = "RFC7234" =>
                  call.ret = (get /\ ~Carries(req.Header["Cache-Control"], "no-store"))
            /\ call.arg.strategy.kind = "Aggressive" => call.ret = get

\* A HEAD request that carries no-store: refused by RFC7234.
C4_Witness ==
    /\ IsCall("cache", "RFC7234")
    /\ call.arg.req.Method = "HEAD"
    /\ Carries(call.arg.req.Header["Cache-Control"], "no-store")
    /\ call.ret = FALSE

\* A HEAD request with no directive at all: accepted by RFC7234.
C4_WitnessAccepted ==
    /\ IsCall("cache", "RFC7234")
    /\ call.arg.req.Method = "HEAD"
    /\ call.arg.req.Header["Cache-Control"] = NoText
    /\ call.ret = TRUE

\* The header names a Vary text lists, in canonical form.
Listed(vary) ==
    {CanonicalHeaderKey(ToLower(TrimSpace(vary[i]))) :
        i \in {j \in DOMAIN vary : vary[j].name # ""}}

\* Selecting-header matching as RFC 7234 section 4.1 has it: every header
\* the stored response's Vary lists has, in the presented request, the value
\* recorded with the stored response.
SelectingHeadersMatch(req, resp) ==
    \A key \in Listed(resp.Header["Vary"]) :
        Get(req.Header, key) = Get(resp.Header, key)

\* C3: the request matches the stored response exactly when every header the
\* response's Vary lists has the recorded value in the request (an empty or
\* absent Vary always matches), and RFC7234.fresh is Transparent whenever
\* such a header differs, whatever max-age, Expires, Date and no-cache say.
C3_VaryOfResponse ==
    /\ call.fn = "matches" =>
          call.ret = SelectingHeadersMatch(call.arg.Request, call.arg)
    /\ IsCall("fresh", "RFC7234") =>
          (~SelectingHeadersMatch(call.arg.resp.Request, call.arg.resp)
              => call.ret = "Transparent")

\* What the code computes instead: the headers are nominated by the Vary
\* header of the request.
C3_VaryOfRequest ==
    /\ call.fn = "matches" =>
          call.ret =
              (\A key \in Listed(call.arg.Request.Header["Vary"]) :
                  Get(call.arg.Request.Header, key) = Get(call.arg.Header, key))
    /\ IsCall("fresh", "RFC7234") =>
          ((\E key \in Listed(call.arg.resp.Request.Header["Vary"]) :
               Get(call.arg.resp.Request.Header, key) # Get(call.arg.resp.Header, key))
              => call.ret = "Transparent")

\* A directive of the text is max-age with a payload.
MaxAgeGiven(text) ==
    \E i \in DOMAIN text : text[i].name = "max-age" /\ text[i].eq

\* The date text is present and in the RFC1123 layout.
Parsable(text) == text # NoText /\ text[1].k \in {"rfc1123", "zero"}

MaxAgeLike(text) ==
    \E i \in DOMAIN text : text[i].name \in MaxAgePrefixed /\ text[i].eq

\* The date text is present, in the RFC1123 layout and not the zero time.
Usable(text) == text # NoText /\ text[1].k = "rfc1123"

C5_WitnessZero ==
    /\ call.fn = "lifetime"
    /\ call.arg.Header["Expires"] = DateText("zero", 0)
    /\ Usable(call.arg.Header["Date"])
    /\ ~call.ret.ok

\* C6: Aggressive.fresh is Fresh exactly when the Date header is parsable
\* and the time since it is less than the effective lifetime (Lifetime when
\* positive, else 24 hours); otherwise Transparent, never Stale.  The time
\* since the zero time is the largest Duration, which no lifetime exceeds.
C6_AggressiveFresh ==
    IsCall("fresh", "Aggressive") =>
        LET d   == call.arg.resp.Header["Date"]
            l   == call.arg.strategy.Lifetime
            eff == IF l > 0 THEN l ELSE 24 * 3600
            young == /\ Parsable(d)
                     /\ d[1].k # "zero"
                     /\ call.arg.now - d[1].t < eff
        IN  /\ call.ret = (IF young THEN "Fresh" ELSE "Transparent")
            /\ call.ret # "Stale"

\* An unconfigured strategy finds a response dated a day less a second ago
\* fresh.
C6_Witness ==
    /\ IsCall("fresh", "Aggressive")
    /\ call.arg.strategy.Lifetime = 0
    /\ Usable(call.arg.resp.Header["Date"])
    /\ call.arg.now - call.arg.resp.Header["Date"][1].t = Day - 1
    /\ call.ret = "Fresh"

\* C7: Aggressive.store is true exactly when the method is GET or HEAD and
\* the status code is on the allow-list, whatever no-store, no-cache,
\* max-age, Expires and Date say on either side.
C7_AggressiveStore ==
    IsCall("store", "Aggressive") =>
        call.ret = (/\ call.arg.resp.Request.Method \in {"GET", "HEAD"}
                    /\ call.arg.resp.StatusCode \in AllowList)

\* A response that carries no-store, to a request that carries it too, is
\* stored.
C7_Witness ==
    /\ IsCall("store", "Aggressive")
    /\ Carries(call.arg.resp.Header["Cache-Control"], "no-store")
    /\ Carries(call.arg.resp.Request.Header["Cache-Control"], "no-store")
    /\ call.ret = TRUE

\* The argument of the last option of the list made by the constructor
\* with, or def when there is none.
LastArg(opts, with, def) ==
    LET at == {i \in DOMAIN opts : opts[i].with = with}
    IN  IF at = {} THEN def
        ELSE opts[CHOOSE i \in at : \A j \in at : j <= i].arg

C9_WitnessNil ==
    /\ call.fn = "NewCache"
    /\ Len(call.arg) = 2
    /\ call.arg[2] = Option("WithClient", Nil)
    /\ call.ret.cache = Nil

\* The header carries no-cache, in Cache-Control or in Pragma.
CarriesNoCache(h) ==
    Carries(h["Cache-Control"], "no-cache") \/ Carries(h["Pragma"], "no-cache")

\* The verdict of the four rules of fresh, taken in order, given whether the
\* selecting headers match.
Verdict(match, resp) ==
    LET l == lifetime(resp)
    IN  IF ~match THEN "Transparent"
        ELSE IF CarriesNoCache(resp.Request.Header) \/ CarriesNoCache(resp.Header)
             THEN "Stale"
        ELSE IF l.ok /\ l.age > 0 THEN "Fresh"
        ELSE "Stale"

\* C10: RFC7234.fresh is Transparent if the selecting headers mismatch, else
\* Stale if the request or the stored response carries no-cache, else Fresh
\* if lifetime(response) is ok and positive, else Stale; so it is Fresh
\* exactly when the selecting headers match, neither side carries no-cache
\* and the lifetime is positive.
C10_FreshOrder ==
    IsCall("fresh", "RFC7234") =>
        LET resp  == call.arg.resp
            match == SelectingHeadersMatch(resp.Request, resp)
            l     == lifetime(resp)
        IN  /\ call.ret = Verdict(match, resp)
            /\ call.ret = "Fresh" <=>
                  /\ match
                  /\ ~CarriesNoCache(resp.Request.Header)
                  /\ ~CarriesNoCache(resp.Header)
                  /\ l.ok /\ l.age > 0

\* The same order of rules, on the verdict that matches() itself gives.
C10_FreshOrderOnMatches ==
    IsCall("fresh", "RFC7234") =>
        LET resp == call.arg.resp
        IN  call.ret = Verdict(matches(resp.Request, resp), resp)

\* C8: on one Memstore shared by goroutines, Load(k) returns nil and no
\* error when no Store(k, .) has taken effect and otherwise the whole value
\* of the most recent Store(k, .) to have taken effect; the map holds, under
\* every key ever stored and under no other, the value last stored there, so
\* Load changes nothing, Store changes its own key alone and nothing is ever
\* evicted; no call returns an error.
C8_Memstore ==
    /\ \A g \in DOMAIN routine :
          routine[g].pc = "returned" =>
              /\ routine[g].err = NoErr
              /\ routine[g].op = "Load" => routine[g].ret = routine[g].expect
    /\ \A k \in DOMAIN events :
          /\ k \in DOMAIN c <=> events[k] # <<>>
          /\ k \in DOMAIN c => c[k] = LastStored(k)
    /\ DOMAIN c \subseteq DOMAIN events

\* A Load of key 1 returns the two bytes stored there last while the other
\* goroutine has stored under key 2 since.
C8_Witness ==
    /\ routine # <<>>
    /\ routine["g1"].pc = "returned"
    /\ routine["g1"].op = "Load"
    /\ routine["g1"].key = 1
    /\ routine["g1"].ret = Bytes(<<1, 2>>)
    /\ routine["g2"].pc = "returned"
    /\ routine["g2"].op = "Store"
    /\ routine["g2"].key = 2

\* C1: Do returns a response from the cache only if the strategy found the
\* loaded entry Fresh for the request at hand, and then the Client is not
\* called; on a Stale or Transparent verdict, or with no entry, the request
\* goes to the Client and the candidate is not what Do returns.
C1_FreshOnly ==
    \A g \in DOMAIN caller :
        caller[g].pc = "done" =>
            LET r == caller[g]
            IN  /\ r.source = "cache" =>
                      /\ r.cand # NoResponse
                      /\ r.cand[1].Request = r.req
                      /\ Strategy_fresh(cache.strategy, r.cand[1], r.at) = "Fresh"
                      /\ r.verdict = "Fresh"
                      /\ r.resp = r.cand
                      /\ ~r.forwarded
                /\ r.verdict \in {"Stale", "Transparent", "none"} =>
                      /\ r.source = "client"
                      /\ r.forwarded
                /\ r.forwarded <=> r.source = "client"

\* The Aggressive strategy finds an entry a second old Transparent and the
\* caller is answered by the Client.
C1_Witness ==
    /\ caller # <<>>
    /\ caller["a"].pc = "done"
    /\ caller["a"].verdict = "Transparent"
    /\ caller["a"].source = "client"
    /\ caller["a"].cand # NoResponse

\* A caller is answered from the cache.
C1_WitnessServed ==
    /\ caller # <<>>
    /\ caller["a"].pc = "done"
    /\ caller["a"].source = "cache"

\* The places of the text where a directive begins with max-age and has an
\* "=" sign, white space and case aside.
MaxAgeAt(text) ==
    {i \in DOMAIN text : text[i].name \in MaxAgePrefixed /\ text[i].eq}

\* The payload of the first such directive.
FirstPayload(text) ==
    text[CHOOSE i \in MaxAgeAt(text) : \A j \in MaxAgeAt(text) : i <= j].arg

\* The payload is the decimal text of an int64.
ValidInteger(p) == \E n \in (0 - MaxAge - 1)..(MaxAge + 1) : ToString(n) = p

\* The text has a max-age directive whose payload is not a valid integer.
Unparsable(text) == MaxAgeAt(text) # {} /\ ~ValidInteger(FirstPayload(text))

\* C11: maxage gives a zero duration with ok=true for a max-age= directive
\* whose payload is not a valid integer, and ok=false only when the
\* directive is absent; lifetime is the max-age value whenever maxage is ok,
\* Expires - Date being consulted only otherwise; so a response with an
\* unparsable max-age has lifetime (0, true) and RFC7234 neither stores it
\* nor finds it Fresh, whatever Expires and Date say.
C11_ZeroOnFailure ==
    /\ call.fn = "maxage" =>
          LET text == call.arg["Cache-Control"]
          IN  /\ Unparsable(text) => call.ret = [age |-> 0, ok |-> TRUE]
              /\ ~call.ret.ok => MaxAgeAt(text) = {}
    /\ call.fn = "lifetime" =>
          LET text == call.arg.Header["Cache-Control"]
              m    == maxage(call.arg.Header)
          IN  /\ m.ok => call.ret = [age |-> m.age, ok |-> TRUE]
              /\ Unparsable(text) => call.ret = [age |-> 0, ok |-> TRUE]
    /\ IsCall("store", "RFC7234") =>
          (Unparsable(call.arg.resp.Header["Cache-Control"]) => call.ret = FALSE)
    /\ IsCall("fresh", "RFC7234") =>
          (Unparsable(call.arg.resp.Header["Cache-Control"]) => call.ret # "Fresh")

\* What holds of every payload that fails to parse: the duration is never
\* positive (zero on a syntax error, minus one second on a range error), so
\* the response is neither stored nor Fresh.
C11_NeverPositive ==
    /\ call.fn = "maxage" =>
          LET text == call.arg["Cache-Control"]
          IN  /\ Unparsable(text) =>
                    /\ call.ret.ok
                    /\ call.ret.age = (IF FirstPayload(text) = Huge THEN 0 - 1 ELSE 0)
              /\ ~call.ret.ok => MaxAgeAt(text) = {}
    /\ call.fn = "lifetime" =>
          LET text == call.arg.Header["Cache-Control"]
              m    == maxage(call.arg.Header)
          IN  /\ m.ok => call.ret = [age |-> m.age, ok |-> TRUE]
              /\ Unparsable(text) => call.ret.ok /\ call.ret.age <= 0
    /\ IsCall("store", "RFC7234") =>
          (Unparsable(call.arg.resp.Header["Cache-Control"]) => call.ret = FALSE)
    /\ IsCall("fresh", "RFC7234") =>
          (Unparsable(call.arg.resp.Header["Cache-Control"]) => call.ret # "Fresh")

\* A response whose max-age payload is no number is refused by store though
\* its Expires lies after its Date.
C11_Witness ==
    /\ IsCall("store", "RFC7234")
    /\ call.arg.resp.Header["Cache-Control"] = <<Piece(FALSE, FALSE, "max-age", TRUE, "x")>>
    /\ call.arg.resp.Header["Date"] = DateText("rfc1123", 0)
    /\ call.arg.resp.Header["Expires"] = DateText("rfc1123", 1)
    /\ call.arg.resp.Request.Method = "GET"
    /\ call.arg.resp.StatusCode = 200
    /\ call.ret = FALSE

====
